---- MODULE Spec2Model ----
(***************************************************************************)
(* Ledger of the waste bank: deposits (setoran), withdrawal requests       *)
(* (tarik), customer balances (nasabah.saldo), sales to collectors         *)
(* (pengepul) and the waste stock, as implemented by                       *)
(* app/transaction_service.py and app/master_data_service.py.              *)
(*                                                                         *)
(* Decimal values are exact fixed-point integers: a weight (berat) counts  *)
(* thousandths, a price (harga) hundredths, and every money value (nilai,  *)
(* saldo, jumlah) counts units of 10^-5, so that berat * harga_beli is the *)
(* exact Decimal product the code computes; the store keeps every Decimal  *)
(* column exactly as written.  A table is a sequence whose index is the    *)
(* autoincrement primary key; session.get(T, id) is None exactly when id   *)
(* is not in DOMAIN of the table.  Officer references (petugas_id) and the *)
(* descriptive columns (nama, nik, ...) take no part in the ledger and are *)
(* left out; a customer's kode is a number, ordered as the code strings.   *)
(* A timestamp counts clock ticks, TicksPerDay of which make a calendar    *)
(* date.                                                                   *)
(***************************************************************************)
EXTENDS Integers, Sequences, FiniteSets, TLC

\* ---------------------------------------------------------------- bounds
\* the ledger holds at most MaxSetoran deposit records and MaxTarik requests
MaxSetoran == 2
MaxTarik == 2
\* and at most MaxPengepulTx sale records
MaxPengepulTx == 2

\* argument values handed to the service layer; the services validate
\* neither sign nor existence before using them
BeratSet == {-1, 1}
HargaSet == {1, 2}
HargaJualSet == {3}
JumlahSet == {0, 2}
NasabahIdArgs == {1, 2}
JenisIdArgs == {1}
TarikIdArgs == 1 .. MaxTarik
PengepulIdArgs == {1}
\* weight and price of a sale to a collector
SaleBeratSet == {0, 2}
SaleHargaSet == {0, 1}

VARIABLES
    nasabah,            \* table nasabah: id -> [saldo]
    jenis_sampah,       \* table jenis_sampah: id -> [harga_beli, harga_jual]
    transaksi_setoran,  \* table transaksi_setoran: id -> deposit record
    transaksi_tarik,    \* table transaksi_tarik: id -> withdrawal request
    last,               \* the last service call, its arguments and result
    pc,                 \* concurrent callers: position of each caller in its call
    sess,               \* concurrent callers: the objects loaded in each session
    pengepul,           \* table pengepul: id -> collector
    transaksi_pengepul, \* table transaksi_pengepul: id -> sale record
    now,                \* the clock that datetime.utcnow() reads
    tanggal             \* column tanggal of the three transaction tables

Procs == {"p1", "p2"}

\* the tables of the collector side
sales == <<pengepul, transaksi_pengepul>>

vars == <<nasabah, jenis_sampah, transaksi_setoran, transaksi_tarik, last, pc, sess,
          pengepul, transaksi_pengepul, now, tanggal>>

\* ------------------------------------------------------- records, helpers
Call(op, nid, jid, tid, berat, jumlah, ret) ==
    [op |-> op, nasabah_id |-> nid, jenis_sampah_id |-> jid,
     transaksi_id |-> tid, berat |-> berat, jumlah |-> jumlah, ret |-> ret]

Nasabah(kode, saldo) == [kode |-> kode, saldo |-> saldo]

\* the gap that a deleted row leaves in a table: its id is not used again
Deleted == [kode |-> 0, saldo |-> 0, deleted |-> TRUE]

\* the ids for which session.get(Nasabah, id) returns a row
NasabahIds == {id \in DOMAIN nasabah : nasabah[id] # Deleted}

\* tanggal: datetime = Field(default_factory=datetime.utcnow): the rows of a
\* table beyond those already stamped get the clock's value
Stamp(column, table) ==
    [i \in DOMAIN table |-> IF i \in DOMAIN column THEN column[i] ELSE now]

\* mutant: tanggal is set again when a withdrawal request is updated
StampUpdatedRows ==
    tanggal' = [setoran |-> Stamp(tanggal.setoran, transaksi_setoran'),
                tarik |-> [i \in DOMAIN transaksi_tarik' |->
                              IF i \in DOMAIN transaksi_tarik
                                 /\ transaksi_tarik'[i] = transaksi_tarik[i]
                              THEN tanggal.tarik[i] ELSE now],
                pengepul |-> Stamp(tanggal.pengepul, transaksi_pengepul')]

StampNewRows ==
    tanggal' = [setoran |-> Stamp(tanggal.setoran, transaksi_setoran'),
                tarik |-> Stamp(tanggal.tarik, transaksi_tarik'),
                pengepul |-> Stamp(tanggal.pengepul, transaksi_pengepul')]

JenisSampah(harga_beli, harga_jual) ==
    [harga_beli |-> harga_beli, harga_jual |-> harga_jual]

TransaksiSetoran(nid, jid, berat, nilai) ==
    [nasabah_id |-> nid, jenis_sampah_id |-> jid, berat |-> berat, nilai |-> nilai]

TransaksiTarik(nid, jumlah, status) ==
    [nasabah_id |-> nid, jumlah |-> jumlah, status |-> status]

Pengepul(kode) == [kode |-> kode]

TransaksiPengepul(pid, jid, berat, harga_jual, total) ==
    [pengepul_id |-> pid, jenis_sampah_id |-> jid, berat |-> berat,
     harga_jual |-> harga_jual, total |-> total]

\* a create_pengepul_transaction call, its arguments and result
CallPengepul(pid, jid, tid, berat, harga_jual, ret) ==
    [op |-> "create_pengepul_transaction", nasabah_id |-> 0, jenis_sampah_id |-> jid,
     transaksi_id |-> tid, berat |-> berat, jumlah |-> 0, ret |-> ret,
     pengepul_id |-> pid, harga_jual |-> harga_jual]

\* a fresh session: an empty unit of work that has loaded nothing and holds
\* no lock; its commit is atomic and its reads return committed rows
get_session ==
    [nasabah_id |-> 0, jenis_sampah_id |-> 0, transaksi_id |-> 0,
     berat |-> 0, jumlah |-> 0, nilai |-> 0, saldo |-> 0]

\* the unit of work of one session: objects added are inserted by commit
\* and discarded by rollback
SessionAdd(pending, obj) == Append(pending, obj)

SessionCommit(table, pending) == table \o pending

\* mutant: rollback that keeps the added records
SessionRollbackKeeps(table, pending) == table \o pending

SessionRollback(table, pending) == table

\* leaving "with get_session() as session" on an exception, before
\* session.commit() has returned: the unit of work is discarded
SessionClose(table, pending) == table

\* mutant: the value ignores the weight
NilaiNoWeight(berat, harga_beli) == harga_beli

\* nilai = data.berat * jenis_sampah.harga_beli
Nilai(berat, harga_beli) == berat * harga_beli

\* mutant: the credit overwrites the balance
CreditOverwrite(saldo, nilai) == nilai

\* nasabah.saldo += nilai
Credit(saldo, nilai) == saldo + nilai

\* mutant: the debit is forgotten
DebitNoop(saldo, jumlah) == saldo

\* nasabah.saldo -= transaksi.jumlah
Debit(saldo, jumlah) == saldo - jumlah

\* total = data.berat * data.harga_jual
Total(berat, harga_jual) == berat * harga_jual

\* mutant: a request is created without the balance check
SaldoKurangCreateNever(saldo, jumlah) == FALSE

\* nasabah.saldo < data.jumlah (create_tarik)
SaldoKurangCreate(saldo, jumlah) == saldo < jumlah

\* mutant: approval without the balance check
SaldoKurangApproveNever(saldo, jumlah) == FALSE

\* nasabah.saldo < transaksi.jumlah (approve_tarik)
SaldoKurangApprove(saldo, jumlah) == saldo < jumlah

\* mutant: only a completed request counts as not pending
NotPendingCompletedOnly(t) == t.status = "completed"

\* transaksi.status != "pending"
NotPending(t) == t.status # "pending"

\* ------------------------------------------------------------------ Init
Init ==
    /\ nasabah = <<>>
    /\ jenis_sampah = <<>>
    /\ transaksi_setoran = <<>>
    /\ transaksi_tarik = <<>>
    /\ last = Call("none", 0, 0, 0, 0, 0, "None")
    /\ pc = [p \in Procs |-> "idle"]
    /\ sess = [p \in Procs |-> get_session]
    /\ pengepul = <<>>
    /\ transaksi_pengepul = <<>>
    /\ now = 0
    /\ tanggal = [setoran |-> <<>>, tarik |-> <<>>, pengepul |-> <<>>]

\* ------------------------------------------- master data (sequential)
\* nasabah.kode is unique: a kode that a stored customer already has makes
\* session.commit() raise
CreateNasabah(kode) ==
    /\ IF \E id \in NasabahIds : nasabah[id].kode = kode
       THEN /\ nasabah' = SessionClose(nasabah, SessionAdd(<<>>, Nasabah(kode, 0)))
            /\ last' = Call("create_nasabah", 0, 0, 0, 0, 0, "IntegrityError")
       ELSE /\ nasabah' = SessionCommit(nasabah, SessionAdd(<<>>, Nasabah(kode, 0)))
            /\ last' = Call("create_nasabah", Len(nasabah) + 1, 0, 0, 0, 0, "record")
    /\ UNCHANGED <<jenis_sampah, transaksi_setoran, transaksi_tarik, pc, sess, sales, now>>
    /\ StampNewRows

\* id is the primary key that the store assigns to the new row
CreateJenisSampah(id, harga_beli, harga_jual) ==
    /\ id = Len(jenis_sampah) + 1
    /\ jenis_sampah' = Append(jenis_sampah, JenisSampah(harga_beli, harga_jual))
    /\ last' = Call("create_jenis_sampah", 0, id, 0, 0, 0, "record")
    /\ UNCHANGED <<nasabah, transaksi_setoran, transaksi_tarik, pc, sess, sales, now>>
    /\ StampNewRows

\* ------------------------------------------------ deposits (sequential)
CreateSetoran(nid, jid, berat) ==
    /\ Len(transaksi_setoran) < MaxSetoran
    /\ IF jid \notin DOMAIN jenis_sampah
       THEN /\ last' = Call("create_setoran", nid, jid, 0, berat, 0, "None")
            /\ UNCHANGED <<nasabah, jenis_sampah, transaksi_setoran, transaksi_tarik, pc, sess, sales, now>>
            /\ StampNewRows
       ELSE LET nilai == Nilai(berat, jenis_sampah[jid].harga_beli)
                transaksi == TransaksiSetoran(nid, jid, berat, nilai)
                pending == SessionAdd(<<>>, transaksi)
            IN  IF nid \notin NasabahIds
                THEN \* the foreign key of the added record does not resolve:
                     \* the lookup's autoflush raises, or the lookup returns
                     \* None and the code rolls back
                     /\ \E r \in {"None", "IntegrityError"} :
                            last' = Call("create_setoran", nid, jid, 0, berat, 0, r)
                     /\ transaksi_setoran' = SessionRollback(transaksi_setoran, pending)
                     /\ UNCHANGED <<nasabah, jenis_sampah, transaksi_tarik, pc, sess, sales, now>>
                     /\ StampNewRows
                ELSE /\ nasabah' = [nasabah EXCEPT ![nid].saldo = Credit(@, nilai)]
                     /\ transaksi_setoran' = SessionCommit(transaksi_setoran, pending)
                     /\ last' = Call("create_setoran", nid, jid,
                                     Len(transaksi_setoran) + 1, berat, 0, "record")
                     /\ UNCHANGED <<jenis_sampah, transaksi_tarik, pc, sess, sales, now>>
                     /\ StampNewRows

\* the points of create_setoran, after the record was added, at which the
\* Record Store can fail
SetoranFailurePoints == {"get_nasabah", "commit", "refresh"}

\* mutant: create_setoran commits the added record before it loads the
\* customer, and the credit in a second commit
CreateSetoranStoreFailureTwoCommits(nid, jid, berat, at) ==
    /\ Len(transaksi_setoran) < MaxSetoran
    /\ jid \in DOMAIN jenis_sampah
    /\ at \in SetoranFailurePoints
    /\ at # "get_nasabah" => nid \in NasabahIds
    /\ LET nilai == Nilai(berat, jenis_sampah[jid].harga_beli)
           transaksi == TransaksiSetoran(nid, jid, berat, nilai)
           pending == SessionAdd(<<>>, transaksi)
       IN  /\ transaksi_setoran' = SessionCommit(transaksi_setoran, pending)
           /\ nasabah' = IF at = "refresh"
                         THEN [nasabah EXCEPT ![nid].saldo = Credit(@, nilai)]
                         ELSE nasabah
           /\ last' = Call("create_setoran", nid, jid, 0, berat, 0, "OperationalError")
    /\ UNCHANGED <<jenis_sampah, transaksi_tarik, pc, sess, sales, now>>
    /\ StampNewRows

\* create_setoran during which the Record Store fails: at the customer lookup
\* (whose autoflush inserts the added record), at session.commit(), or at
\* session.refresh() after the commit
CreateSetoranStoreFailure(nid, jid, berat, at) ==
    /\ Len(transaksi_setoran) < MaxSetoran
    /\ jid \in DOMAIN jenis_sampah
    /\ at \in SetoranFailurePoints
    /\ at # "get_nasabah" => nid \in NasabahIds
    /\ LET nilai == Nilai(berat, jenis_sampah[jid].harga_beli)
           transaksi == TransaksiSetoran(nid, jid, berat, nilai)
           pending == SessionAdd(<<>>, transaksi)
       IN  IF at = "refresh"
           THEN /\ nasabah' = [nasabah EXCEPT ![nid].saldo = Credit(@, nilai)]
                /\ transaksi_setoran' = SessionCommit(transaksi_setoran, pending)
                /\ last' = Call("create_setoran", nid, jid,
                                Len(transaksi_setoran) + 1, berat, 0, "OperationalError")
           ELSE /\ transaksi_setoran' = SessionClose(transaksi_setoran, pending)
                /\ nasabah' = nasabah
                /\ last' = Call("create_setoran", nid, jid, 0, berat, 0, "OperationalError")
    /\ UNCHANGED <<jenis_sampah, transaksi_tarik, pc, sess, sales, now>>
    /\ StampNewRows

\* --------------------------------------------- withdrawals (sequential)
\* mutant: creating a request reserves the amount out of the balance
CreateTarikReserve(nid, jumlah) ==
    /\ Len(transaksi_tarik) < MaxTarik
    /\ IF nid \notin NasabahIds \/ SaldoKurangCreate(nasabah[nid].saldo, jumlah)
       THEN /\ last' = Call("create_tarik", nid, 0, 0, 0, jumlah, "None")
            /\ UNCHANGED <<nasabah, jenis_sampah, transaksi_setoran, transaksi_tarik, pc, sess, sales, now>>
            /\ StampNewRows
       ELSE /\ transaksi_tarik' =
                   SessionCommit(transaksi_tarik,
                                 SessionAdd(<<>>, TransaksiTarik(nid, jumlah, "pending")))
            /\ nasabah' = [nasabah EXCEPT ![nid].saldo = @ - jumlah]
            /\ last' = Call("create_tarik", nid, 0, Len(transaksi_tarik) + 1, 0, jumlah, "record")
            /\ UNCHANGED <<jenis_sampah, transaksi_setoran, pc, sess, sales, now>>
            /\ StampNewRows

CreateTarik(nid, jumlah) ==
    /\ Len(transaksi_tarik) < MaxTarik
    /\ IF nid \notin NasabahIds \/ SaldoKurangCreate(nasabah[nid].saldo, jumlah)
       THEN /\ last' = Call("create_tarik", nid, 0, 0, 0, jumlah, "None")
            /\ UNCHANGED <<nasabah, jenis_sampah, transaksi_setoran, transaksi_tarik, pc, sess, sales, now>>
            /\ StampNewRows
       ELSE /\ transaksi_tarik' =
                   SessionCommit(transaksi_tarik,
                                 SessionAdd(<<>>, TransaksiTarik(nid, jumlah, "pending")))
            /\ last' = Call("create_tarik", nid, 0, Len(transaksi_tarik) + 1, 0, jumlah, "record")
            /\ UNCHANGED <<nasabah, jenis_sampah, transaksi_setoran, pc, sess, sales, now>>
            /\ StampNewRows

ApproveTarik(tid) ==
    IF tid \notin DOMAIN transaksi_tarik \/ NotPending(transaksi_tarik[tid])
    THEN /\ last' = Call("approve_tarik", 0, 0, tid, 0, 0, "False")
         /\ UNCHANGED <<nasabah, jenis_sampah, transaksi_setoran, transaksi_tarik, pc, sess, sales, now>>
         /\ StampNewRows
    ELSE LET transaksi == transaksi_tarik[tid]
             nid == transaksi.nasabah_id
         IN  IF nid \notin NasabahIds
                \/ SaldoKurangApprove(nasabah[nid].saldo, transaksi.jumlah)
             THEN /\ last' = Call("approve_tarik", 0, 0, tid, 0, 0, "False")
                  /\ UNCHANGED <<nasabah, jenis_sampah, transaksi_setoran, transaksi_tarik, pc, sess, sales, now>>
                  /\ StampNewRows
             ELSE /\ nasabah' = [nasabah EXCEPT ![nid].saldo = Debit(@, transaksi.jumlah)]
                  /\ transaksi_tarik' = [transaksi_tarik EXCEPT ![tid].status = "completed"]
                  /\ last' = Call("approve_tarik", 0, 0, tid, 0, 0, "True")
                  /\ UNCHANGED <<jenis_sampah, transaksi_setoran, pc, sess, sales, now>>
                  /\ StampNewRows

\* mutant: rejecting refunds the requested amount
RejectTarikRefund(tid) ==
    IF tid \notin DOMAIN transaksi_tarik \/ NotPending(transaksi_tarik[tid])
    THEN /\ last' = Call("reject_tarik", 0, 0, tid, 0, 0, "False")
         /\ UNCHANGED <<nasabah, jenis_sampah, transaksi_setoran, transaksi_tarik, pc, sess, sales, now>>
         /\ StampNewRows
    ELSE /\ transaksi_tarik' = [transaksi_tarik EXCEPT ![tid].status = "rejected"]
         /\ nasabah' = [nasabah EXCEPT ![transaksi_tarik[tid].nasabah_id].saldo =
                            @ + transaksi_tarik[tid].jumlah]
         /\ last' = Call("reject_tarik", 0, 0, tid, 0, 0, "True")
         /\ UNCHANGED <<jenis_sampah, transaksi_setoran, pc, sess, sales, now>>
         /\ StampNewRows

RejectTarik(tid) ==
    IF tid \notin DOMAIN transaksi_tarik \/ NotPending(transaksi_tarik[tid])
    THEN /\ last' = Call("reject_tarik", 0, 0, tid, 0, 0, "False")
         /\ UNCHANGED <<nasabah, jenis_sampah, transaksi_setoran, transaksi_tarik, pc, sess, sales, now>>
         /\ StampNewRows
    ELSE /\ transaksi_tarik' = [transaksi_tarik EXCEPT ![tid].status = "rejected"]
         /\ last' = Call("reject_tarik", 0, 0, tid, 0, 0, "True")
         /\ UNCHANGED <<nasabah, jenis_sampah, transaksi_setoran, pc, sess, sales, now>>
         /\ StampNewRows

\* ------------------------------------------ collector sales (sequential)
CreatePengepul ==
    /\ Len(pengepul) + 1 \in PengepulIdArgs
    /\ pengepul' = Append(pengepul, Pengepul(Len(pengepul) + 1))
    /\ last' = Call("create_pengepul", 0, 0, 0, 0, 0, "record")
    /\ UNCHANGED <<nasabah, jenis_sampah, transaksi_setoran, transaksi_tarik, pc, sess,
                   transaksi_pengepul, now>>
    /\ StampNewRows

\* mutant: the sale is priced at the waste type's default harga_jual
CreatePengepulTransactionDefaultPrice(pid, jid, berat, harga_jual) ==
    /\ Len(transaksi_pengepul) < MaxPengepulTx
    /\ LET transaksi ==
               TransaksiPengepul(pid, jid, berat, harga_jual,
                   IF jid \in DOMAIN jenis_sampah
                   THEN Total(berat, jenis_sampah[jid].harga_jual) ELSE 0)
           pending == SessionAdd(<<>>, transaksi)
       IN  IF pid \notin DOMAIN pengepul \/ jid \notin DOMAIN jenis_sampah
           THEN /\ transaksi_pengepul' = SessionClose(transaksi_pengepul, pending)
                /\ last' = CallPengepul(pid, jid, 0, berat, harga_jual, "IntegrityError")
           ELSE /\ transaksi_pengepul' = SessionCommit(transaksi_pengepul, pending)
                /\ last' = CallPengepul(pid, jid, Len(transaksi_pengepul) + 1,
                                        berat, harga_jual, "record")
    /\ UNCHANGED <<nasabah, jenis_sampah, transaksi_setoran, transaksi_tarik, pc, sess,
                   pengepul, now>>
    /\ StampNewRows

\* create_pengepul_transaction: neither the arguments are validated nor the
\* collector or the waste type looked up; a foreign key that does not
\* resolve makes session.commit() raise
CreatePengepulTransaction(pid, jid, berat, harga_jual) ==
    /\ Len(transaksi_pengepul) < MaxPengepulTx
    /\ LET transaksi ==
               TransaksiPengepul(pid, jid, berat, harga_jual, Total(berat, harga_jual))
           pending == SessionAdd(<<>>, transaksi)
       IN  IF pid \notin DOMAIN pengepul \/ jid \notin DOMAIN jenis_sampah
           THEN /\ transaksi_pengepul' = SessionClose(transaksi_pengepul, pending)
                /\ last' = CallPengepul(pid, jid, 0, berat, harga_jual, "IntegrityError")
           ELSE /\ transaksi_pengepul' = SessionCommit(transaksi_pengepul, pending)
                /\ last' = CallPengepul(pid, jid, Len(transaksi_pengepul) + 1,
                                        berat, harga_jual, "record")
    /\ UNCHANGED <<nasabah, jenis_sampah, transaksi_setoran, transaksi_tarik, pc, sess,
                   pengepul, now>>
    /\ StampNewRows

\* ------------------------------------------------------------- stock
\* the two loops of get_total_waste_stock over a list of records: each
\* record's berat, times sign, is added to its waste type's entry of
\* stock_by_type, an entry that is missing being created at 0
RECURSIVE StockByType(_, _, _)
StockByType(list, sign, stock_by_type) ==
    IF list = <<>> THEN stock_by_type
    ELSE LET id == Head(list).jenis_sampah_id
             stock == IF id \in DOMAIN stock_by_type
                      THEN stock_by_type
                      ELSE stock_by_type @@ (id :> 0)
         IN  StockByType(Tail(list), sign,
                         [stock EXCEPT ![id] = @ + sign * Head(list).berat])

\* mutant: a negative stock is counted as it is
StockFloorNone(stock) == stock

\* max(stock, Decimal("0"))
StockFloor(stock) == IF stock > 0 THEN stock ELSE 0

\* sum(max(stock, Decimal("0")) for stock in stock_by_type.values())
RECURSIVE SumStock(_, _)
SumStock(stock_by_type, ids) ==
    IF ids = {} THEN 0
    ELSE LET id == CHOOSE id \in ids : TRUE
         IN  StockFloor(stock_by_type[id]) + SumStock(stock_by_type, ids \ {id})

\* get_total_waste_stock() on the committed tables; a weight counts
\* thousandths, and Decimal(str(total_stock)) is total_stock
get_total_waste_stock ==
    LET stock_by_type ==
            StockByType(transaksi_pengepul, -1, StockByType(transaksi_setoran, 1, <<>>))
    IN  IF DOMAIN stock_by_type = {} THEN 0
        ELSE SumStock(stock_by_type, DOMAIN stock_by_type)

\* ------------------------------------------------------- aggregations
\* sum(t.nilai for t in setoran_list)
RECURSIVE TotalCost(_)
TotalCost(setoran_list) ==
    IF setoran_list = <<>> THEN 0
    ELSE Head(setoran_list).nilai + TotalCost(Tail(setoran_list))

\* sum(t.total for t in pengepul_list)
RECURSIVE TotalRevenue(_)
TotalRevenue(pengepul_list) ==
    IF pengepul_list = <<>> THEN 0
    ELSE Head(pengepul_list).total + TotalRevenue(Tail(pengepul_list))

\* mutant: every withdrawal request lowers the profit
calculate_total_profit_less_tarik ==
    TotalRevenue(transaksi_pengepul) - TotalCost(transaksi_setoran)
        - Len(transaksi_tarik)

\* calculate_total_profit(): profit = total_revenue - total_cost
calculate_total_profit ==
    TotalRevenue(transaksi_pengepul) - TotalCost(transaksi_setoran)

\* get_total_waste_sent(): sum(t.berat for t in pengepul_list)
RECURSIVE TotalBerat(_)
TotalBerat(pengepul_list) ==
    IF pengepul_list = <<>> THEN 0
    ELSE Head(pengepul_list).berat + TotalBerat(Tail(pengepul_list))

get_total_waste_sent == TotalBerat(transaksi_pengepul)

\* select(T).where(...): the rows of table that satisfy Where, in id order
RECURSIVE Select(_, _, _)
Select(table, where, id) ==
    IF id > Len(table) THEN <<>>
    ELSE (IF id \in where THEN <<id>> ELSE <<>>) \o Select(table, where, id + 1)

\* sum(n.saldo for n in nasabah_list)
RECURSIVE TotalSaldo(_)
TotalSaldo(nasabah_list) ==
    IF nasabah_list = <<>> THEN 0
    ELSE nasabah[Head(nasabah_list)].saldo + TotalSaldo(Tail(nasabah_list))

\* select(Nasabah)
AllNasabah == Select(nasabah, NasabahIds, 1)

\* NasabahService.get_total_balance()
get_total_balance == TotalSaldo(AllNasabah)

\* mutant: every request is counted, whatever its status
get_pending_count_all == Len(transaksi_tarik)

\* TransaksiTarikService.get_pending_count()
get_pending_count ==
    Len(Select(transaksi_tarik,
               {id \in DOMAIN transaksi_tarik : transaksi_tarik[id].status = "pending"}, 1))

\* DashboardService.get_dashboard_summary(); the count of officers is left out
get_dashboard_summary ==
    [total_customers |-> Len(AllNasabah),
     total_waste_types |-> Len(jenis_sampah),
     total_deposit_transactions |-> Len(transaksi_setoran),
     total_customer_balance |-> get_total_balance,
     pending_withdrawal_requests |-> get_pending_count,
     total_waste_stock |-> get_total_waste_stock,
     total_waste_sent_to_collectors |-> get_total_waste_sent,
     total_profit |-> calculate_total_profit]

Next ==
    \/ Len(nasabah) + 1 \in NasabahIdArgs /\ CreateNasabah(Len(nasabah) + 1)
    \/ \E j \in JenisIdArgs, h \in HargaSet, hj \in HargaJualSet : CreateJenisSampah(j, h, hj)
    \/ \E n \in NasabahIdArgs, j \in JenisIdArgs, b \in BeratSet : CreateSetoran(n, j, b)
    \/ \E n \in NasabahIdArgs, a \in JumlahSet : CreateTarik(n, a)
    \/ \E t \in TarikIdArgs : ApproveTarik(t)
    \/ \E t \in TarikIdArgs : RejectTarik(t)

Spec == Init /\ [][Next]_vars

\* the sequential calls, with Record Store failures during deposits
NextFail ==
    \/ Next
    \/ \E n \in NasabahIdArgs, j \in JenisIdArgs, b \in BeratSet, at \in SetoranFailurePoints :
           CreateSetoranStoreFailure(n, j, b, at)

SpecFail == Init /\ [][NextFail]_vars

\* ------------------------------------------------- concurrent callers
\* Each caller runs one service call at a time in a session of its own; a
\* step is one statement group of the call: a session.get reads the committed
\* row, the assignments work on the loaded objects, and session.commit writes
\* the loaded objects' new values and the added records in one atomic commit.
\* The concurrent callers pass validated arguments (positive weight, amount).
BeratConc == {1}
JumlahConc == {2}

Return(p) ==
    /\ pc' = [pc EXCEPT ![p] = "idle"]
    /\ sess' = [sess EXCEPT ![p] = get_session]

\* create_setoran: load the waste type, compute nilai, add the record
SetoranGetJenis(p, nid, jid, berat) ==
    /\ pc[p] = "idle"
    /\ Len(transaksi_setoran) < MaxSetoran
    /\ IF jid \notin DOMAIN jenis_sampah
       THEN Return(p)
       ELSE /\ sess' = [sess EXCEPT ![p] =
                   [get_session EXCEPT !.nasabah_id = nid, !.jenis_sampah_id = jid,
                       !.berat = berat,
                       !.nilai = Nilai(berat, jenis_sampah[jid].harga_beli)]]
            /\ pc' = [pc EXCEPT ![p] = "setoran_get_nasabah"]
    /\ UNCHANGED <<nasabah, jenis_sampah, transaksi_setoran, transaksi_tarik, last, sales, now>>
    /\ StampNewRows

\* create_setoran: load the customer
SetoranGetNasabah(p) ==
    /\ pc[p] = "setoran_get_nasabah"
    /\ IF sess[p].nasabah_id \notin NasabahIds
       THEN Return(p)
       ELSE /\ sess' = [sess EXCEPT ![p].saldo = nasabah[sess[p].nasabah_id].saldo]
            /\ pc' = [pc EXCEPT ![p] = "setoran_commit"]
    /\ UNCHANGED <<nasabah, jenis_sampah, transaksi_setoran, transaksi_tarik, last, sales, now>>
    /\ StampNewRows

\* create_setoran: credit the loaded customer and commit
SetoranCommit(p) ==
    /\ pc[p] = "setoran_commit"
    /\ nasabah' = [nasabah EXCEPT ![sess[p].nasabah_id].saldo =
                       Credit(sess[p].saldo, sess[p].nilai)]
    /\ transaksi_setoran' =
           SessionCommit(transaksi_setoran,
               SessionAdd(<<>>, TransaksiSetoran(sess[p].nasabah_id,
                   sess[p].jenis_sampah_id, sess[p].berat, sess[p].nilai)))
    /\ Return(p)
    /\ UNCHANGED <<jenis_sampah, transaksi_tarik, last, sales, now>>
    /\ StampNewRows

\* create_tarik: load the customer and check the balance
TarikGetNasabah(p, nid, jumlah) ==
    /\ pc[p] = "idle"
    /\ Len(transaksi_tarik) < MaxTarik
    /\ IF nid \notin NasabahIds \/ SaldoKurangCreate(nasabah[nid].saldo, jumlah)
       THEN Return(p)
       ELSE /\ sess' = [sess EXCEPT ![p] =
                   [get_session EXCEPT !.nasabah_id = nid, !.jumlah = jumlah]]
            /\ pc' = [pc EXCEPT ![p] = "tarik_commit"]
    /\ UNCHANGED <<nasabah, jenis_sampah, transaksi_setoran, transaksi_tarik, last, sales, now>>
    /\ StampNewRows

\* create_tarik: add the pending request and commit
TarikCommit(p) ==
    /\ pc[p] = "tarik_commit"
    /\ transaksi_tarik' =
           SessionCommit(transaksi_tarik,
               SessionAdd(<<>>, TransaksiTarik(sess[p].nasabah_id, sess[p].jumlah, "pending")))
    /\ Return(p)
    /\ UNCHANGED <<nasabah, jenis_sampah, transaksi_setoran, last, sales, now>>
    /\ StampNewRows

\* approve_tarik: load the request and check that it is pending
ApproveGetTransaksi(p, tid) ==
    /\ pc[p] = "idle"
    /\ IF tid \notin DOMAIN transaksi_tarik \/ NotPending(transaksi_tarik[tid])
       THEN Return(p)
       ELSE /\ sess' = [sess EXCEPT ![p] =
                   [get_session EXCEPT !.transaksi_id = tid,
                       !.nasabah_id = transaksi_tarik[tid].nasabah_id,
                       !.jumlah = transaksi_tarik[tid].jumlah]]
            /\ pc' = [pc EXCEPT ![p] = "approve_get_nasabah"]
    /\ UNCHANGED <<nasabah, jenis_sampah, transaksi_setoran, transaksi_tarik, last, sales, now>>
    /\ StampNewRows

\* approve_tarik: load the customer and check the balance again
ApproveGetNasabah(p) ==
    /\ pc[p] = "approve_get_nasabah"
    /\ IF sess[p].nasabah_id \notin NasabahIds
          \/ SaldoKurangApprove(nasabah[sess[p].nasabah_id].saldo, sess[p].jumlah)
       THEN Return(p)
       ELSE /\ sess' = [sess EXCEPT ![p].saldo = nasabah[sess[p].nasabah_id].saldo]
            /\ pc' = [pc EXCEPT ![p] = "approve_commit"]
    /\ UNCHANGED <<nasabah, jenis_sampah, transaksi_setoran, transaksi_tarik, last, sales, now>>
    /\ StampNewRows

\* approve_tarik: debit the loaded customer, complete the request, commit
ApproveCommit(p) ==
    /\ pc[p] = "approve_commit"
    /\ nasabah' = [nasabah EXCEPT ![sess[p].nasabah_id].saldo =
                       Debit(sess[p].saldo, sess[p].jumlah)]
    /\ transaksi_tarik' = [transaksi_tarik EXCEPT ![sess[p].transaksi_id].status = "completed"]
    /\ Return(p)
    /\ UNCHANGED <<jenis_sampah, transaksi_setoran, last, sales, now>>
    /\ StampNewRows

\* reject_tarik: load the request and check that it is pending
RejectGetTransaksi(p, tid) ==
    /\ pc[p] = "idle"
    /\ IF tid \notin DOMAIN transaksi_tarik \/ NotPending(transaksi_tarik[tid])
       THEN Return(p)
       ELSE /\ sess' = [sess EXCEPT ![p] = [get_session EXCEPT !.transaksi_id = tid]]
            /\ pc' = [pc EXCEPT ![p] = "reject_commit"]
    /\ UNCHANGED <<nasabah, jenis_sampah, transaksi_setoran, transaksi_tarik, last, sales, now>>
    /\ StampNewRows

\* reject_tarik: mark the loaded request rejected and commit
RejectCommit(p) ==
    /\ pc[p] = "reject_commit"
    /\ transaksi_tarik' = [transaksi_tarik EXCEPT ![sess[p].transaksi_id].status = "rejected"]
    /\ Return(p)
    /\ UNCHANGED <<nasabah, jenis_sampah, transaksi_setoran, last, sales, now>>
    /\ StampNewRows

NextConc ==
    \/ Len(nasabah) + 1 \in NasabahIdArgs /\ CreateNasabah(Len(nasabah) + 1)
    \/ \E j \in JenisIdArgs, h \in HargaSet, hj \in HargaJualSet : CreateJenisSampah(j, h, hj)
    \/ \E p \in Procs, n \in NasabahIdArgs, j \in JenisIdArgs, b \in BeratConc :
           SetoranGetJenis(p, n, j, b)
    \/ \E p \in Procs : SetoranGetNasabah(p)
    \/ \E p \in Procs : SetoranCommit(p)
    \/ \E p \in Procs, n \in NasabahIdArgs, a \in JumlahConc : TarikGetNasabah(p, n, a)
    \/ \E p \in Procs : TarikCommit(p)
    \/ \E p \in Procs, t \in TarikIdArgs : ApproveGetTransaksi(p, t)
    \/ \E p \in Procs : ApproveGetNasabah(p)
    \/ \E p \in Procs : ApproveCommit(p)
    \/ \E p \in Procs, t \in TarikIdArgs : RejectGetTransaksi(p, t)
    \/ \E p \in Procs : RejectCommit(p)

SpecConc == Init /\ [][NextConc]_vars

\* --------------------------------------------- ledger next to the sales
\* the ledger calls with validated arguments, next to the collector sales
NextSale ==
    \/ Len(nasabah) + 1 \in NasabahIdArgs /\ CreateNasabah(Len(nasabah) + 1)
    \/ \E j \in JenisIdArgs, h \in HargaSet, hj \in HargaJualSet : CreateJenisSampah(j, h, hj)
    \/ CreatePengepul
    \/ \E n \in NasabahIdArgs, j \in JenisIdArgs, b \in BeratConc : CreateSetoran(n, j, b)
    \/ \E n \in NasabahIdArgs, a \in JumlahConc : CreateTarik(n, a)
    \/ \E p \in PengepulIdArgs, j \in JenisIdArgs, b \in SaleBeratSet, h \in SaleHargaSet :
           CreatePengepulTransaction(p, j, b, h)

SpecSale == Init /\ [][NextSale]_vars

\* ------------------------------------------- deposits and sales by type
JenisIdStock == {1, 2}
StockNasabahIdArgs == {1}
StockBeratSet == {1, 2}
StockSaleBeratSet == {1, 2}
StockHargaSet == {4}

NextStock ==
    \/ Len(nasabah) + 1 \in NasabahIdArgs /\ CreateNasabah(Len(nasabah) + 1)
    \/ \E j \in JenisIdStock, h \in HargaSet, hj \in HargaJualSet : CreateJenisSampah(j, h, hj)
    \/ CreatePengepul
    \/ \E n \in StockNasabahIdArgs, j \in JenisIdStock, b \in StockBeratSet :
           CreateSetoran(n, j, b)
    \/ \E p \in PengepulIdArgs, j \in JenisIdStock, b \in StockSaleBeratSet,
          h \in StockHargaSet :
           CreatePengepulTransaction(p, j, b, h)

SpecStock == Init /\ [][NextStock]_vars

\* ------------------------------------------------------- customer reports

\* sum of nilai over the deposit records of customer c in table
RECURSIVE SumNilai(_, _)
SumNilai(table, c) ==
    IF table = <<>> THEN 0
    ELSE (IF Head(table).nasabah_id = c THEN Head(table).nilai ELSE 0)
         + SumNilai(Tail(table), c)

\* mutant: the requests of every status are summed
RECURSIVE SumCompletedAnyStatus(_, _)
SumCompletedAnyStatus(table, c) ==
    IF table = <<>> THEN 0
    ELSE (IF Head(table).nasabah_id = c THEN Head(table).jumlah ELSE 0)
         + SumCompletedAnyStatus(Tail(table), c)

\* sum of jumlah over the completed withdrawal requests of customer c in table
RECURSIVE SumCompleted(_, _)
SumCompleted(table, c) ==
    IF table = <<>> THEN 0
    ELSE (IF Head(table).nasabah_id = c /\ Head(table).status = "completed"
          THEN Head(table).jumlah ELSE 0)
         + SumCompleted(Tail(table), c)

\* generate_customer_report(nasabah_id): the report, or the ValueError it
\* raises; last_transaction is left out
generate_customer_report(nasabah_id) ==
    IF nasabah_id \notin NasabahIds
    THEN [raises |-> "ValueError"]
    ELSE [raises |-> "None",
          nasabah_kode |-> nasabah[nasabah_id].kode,
          total_setoran |-> SumNilai(transaksi_setoran, nasabah_id),
          total_tarik |-> SumCompleted(transaksi_tarik, nasabah_id),
          saldo_current |-> nasabah[nasabah_id].saldo]

\* x placed in a list sorted by nasabah_kode ascending, after the entries
\* that are not greater than x
RECURSIVE InsertByKode(_, _)
InsertByKode(x, list) ==
    IF list = <<>> THEN <<x>>
    ELSE IF Head(list).nasabah_kode <= x.nasabah_kode
         THEN <<Head(list)>> \o InsertByKode(x, Tail(list))
         ELSE <<x>> \o list

\* sorted(reports, key=lambda x: x.nasabah_kode)
RECURSIVE SortedByKode(_)
SortedByKode(reports) ==
    IF reports = <<>> THEN <<>>
    ELSE InsertByKode(reports[Len(reports)], SortedByKode(SubSeq(reports, 1, Len(reports) - 1)))

\* the customers that deposit or withdrawal records refer to
Referenced ==
    {transaksi_setoran[i].nasabah_id : i \in DOMAIN transaksi_setoran}
        \cup {transaksi_tarik[i].nasabah_id : i \in DOMAIN transaksi_tarik}

\* NasabahService.delete_nasabah(nasabah_id); the foreign keys of the
\* transaction tables refuse the delete of a customer that records refer to
DeleteNasabah(nasabah_id) ==
    IF nasabah_id \notin NasabahIds
    THEN /\ last' = Call("delete_nasabah", nasabah_id, 0, 0, 0, 0, "False")
         /\ UNCHANGED <<nasabah, jenis_sampah, transaksi_setoran, transaksi_tarik, pc, sess, sales, now>>
         /\ StampNewRows
    ELSE IF nasabah_id \in Referenced
    THEN /\ last' = Call("delete_nasabah", nasabah_id, 0, 0, 0, 0, "IntegrityError")
         /\ UNCHANGED <<nasabah, jenis_sampah, transaksi_setoran, transaksi_tarik, pc, sess, sales, now>>
         /\ StampNewRows
    ELSE /\ nasabah' = [nasabah EXCEPT ![nasabah_id] = Deleted]
         /\ last' = Call("delete_nasabah", nasabah_id, 0, 0, 0, 0, "True")
         /\ UNCHANGED <<jenis_sampah, transaksi_setoran, transaksi_tarik, pc, sess, sales, now>>
         /\ StampNewRows

\* get_all_customer_reports: select(Nasabah) in the session of the call
AllReportsList(p) ==
    /\ pc[p] = "idle"
    /\ pc' = [pc EXCEPT ![p] = "all_reports"]
    /\ sess' = [sess EXCEPT ![p] = [nasabah_list |-> AllNasabah, next |-> 1,
                                    reports |-> <<>>, warnings |-> <<>>]]
    /\ UNCHANGED <<nasabah, jenis_sampah, transaksi_setoran, transaksi_tarik, last, sales, now>>
    /\ StampNewRows

\* mutant: the ValueError of a customer that is gone ends the call
AllReportsFetchRaises(p) ==
    /\ pc[p] = "all_reports"
    /\ sess[p].next <= Len(sess[p].nasabah_list)
    /\ LET nasabah_id == sess[p].nasabah_list[sess[p].next]
           report == generate_customer_report(nasabah_id)
       IN  IF report.raises = "ValueError"
           THEN /\ last' = Call("get_all_customer_reports", 0, 0, 0, 0, 0, "ValueError")
                /\ Return(p)
           ELSE /\ sess' = [sess EXCEPT ![p].reports = Append(@, report),
                                        ![p].next = @ + 1]
                /\ UNCHANGED <<pc, last>>
    /\ UNCHANGED <<nasabah, jenis_sampah, transaksi_setoran, transaksi_tarik, sales, now>>
    /\ StampNewRows

\* get_all_customer_reports: one turn of the loop, generate_customer_report in
\* a session of its own; a ValueError is logged and the customer skipped
AllReportsFetch(p) ==
    /\ pc[p] = "all_reports"
    /\ sess[p].next <= Len(sess[p].nasabah_list)
    /\ LET nasabah_id == sess[p].nasabah_list[sess[p].next]
           report == generate_customer_report(nasabah_id)
       IN  sess' = [sess EXCEPT
                        ![p].reports = IF report.raises = "ValueError"
                                       THEN @ ELSE Append(@, report),
                        ![p].warnings = IF report.raises = "ValueError"
                                        THEN Append(@, nasabah_id) ELSE @,
                        ![p].next = @ + 1]
    /\ UNCHANGED <<nasabah, jenis_sampah, transaksi_setoran, transaksi_tarik, last, pc, sales, now>>
    /\ StampNewRows

\* get_all_customer_reports: the loop is over, the sorted list is returned
AllReportsReturn(p) ==
    /\ pc[p] = "all_reports"
    /\ sess[p].next > Len(sess[p].nasabah_list)
    /\ last' = [op |-> "get_all_customer_reports", ret |-> "list",
                reports |-> SortedByKode(sess[p].reports),
                warnings |-> sess[p].warnings]
    /\ Return(p)
    /\ UNCHANGED <<nasabah, jenis_sampah, transaksi_setoran, transaksi_tarik, sales, now>>
    /\ StampNewRows

\* the most customers created
MaxCustomers == 3

KodeSet == {1, 2, 3}
ReportProcs == {"p1"}

\* customers are created, credited and deleted while the summaries are made
NextAllReports ==
    \/ \E k \in KodeSet : Len(nasabah) < MaxCustomers /\ CreateNasabah(k)
    \/ \E j \in JenisIdArgs, h \in HargaSet, hj \in HargaJualSet : CreateJenisSampah(j, h, hj)
    \/ \E n \in NasabahIdArgs, j \in JenisIdArgs, b \in BeratConc : CreateSetoran(n, j, b)
    \/ \E n \in 1 .. MaxCustomers : DeleteNasabah(n)
    \/ \E p \in ReportProcs : AllReportsList(p)
    \/ \E p \in ReportProcs : AllReportsFetch(p)
    \/ \E p \in ReportProcs : AllReportsReturn(p)

SpecAllReports == Init /\ [][NextAllReports]_vars

\* ------------------------------------------------------- master data changes

\* the largest saldo update_saldo is asked to reach
MaxSaldo == 2

AmountSet == {1, 2}
OperationSet == {"add", "subtract", "set"}

\* NasabahService.update_saldo(nasabah_id, amount, operation)
UpdateSaldo(nasabah_id, amount, operation) ==
    IF nasabah_id \notin NasabahIds
    THEN /\ last' = Call("update_saldo", nasabah_id, 0, 0, 0, amount, "False")
         /\ UNCHANGED <<nasabah, jenis_sampah, transaksi_setoran, transaksi_tarik, pc, sess, sales, now>>
         /\ StampNewRows
    ELSE IF operation = "add"
    THEN /\ nasabah' = [nasabah EXCEPT ![nasabah_id].saldo = @ + amount]
         /\ last' = Call("update_saldo", nasabah_id, 0, 0, 0, amount, "True")
         /\ UNCHANGED <<jenis_sampah, transaksi_setoran, transaksi_tarik, pc, sess, sales, now>>
         /\ StampNewRows
    ELSE IF operation = "subtract" /\ nasabah[nasabah_id].saldo >= amount
    THEN /\ nasabah' = [nasabah EXCEPT ![nasabah_id].saldo = @ - amount]
         /\ last' = Call("update_saldo", nasabah_id, 0, 0, 0, amount, "True")
         /\ UNCHANGED <<jenis_sampah, transaksi_setoran, transaksi_tarik, pc, sess, sales, now>>
         /\ StampNewRows
    ELSE /\ last' = Call("update_saldo", nasabah_id, 0, 0, 0, amount, "False")
         /\ UNCHANGED <<nasabah, jenis_sampah, transaksi_setoran, transaksi_tarik, pc, sess, sales, now>>
         /\ StampNewRows

\* the ledger operations on valid arguments, and update_saldo
NextSaldo ==
    \/ Len(nasabah) + 1 \in NasabahIdArgs /\ CreateNasabah(Len(nasabah) + 1)
    \/ \E j \in JenisIdArgs, h \in HargaSet, hj \in HargaJualSet : CreateJenisSampah(j, h, hj)
    \/ \E n \in NasabahIdArgs, j \in JenisIdArgs, b \in BeratConc : CreateSetoran(n, j, b)
    \/ \E n \in NasabahIdArgs, a \in JumlahConc : CreateTarik(n, a)
    \/ \E t \in TarikIdArgs : ApproveTarik(t)
    \/ \E t \in TarikIdArgs : RejectTarik(t)
    \/ \E n \in NasabahIdArgs, a \in AmountSet, o \in OperationSet :
           /\ n \in NasabahIds => nasabah[n].saldo + a <= MaxSaldo
           /\ UpdateSaldo(n, a, o)

SpecSaldo == Init /\ [][NextSaldo]_vars

UpdateHargaJualSet == {1}

\* JenisSampahUpdate with the fields that were set: harga_beli, harga_jual or both
PriceUpdates ==
    {[harga_beli |-> h] : h \in HargaSet}
        \cup {[harga_jual |-> h] : h \in UpdateHargaJualSet}
        \cup {[harga_beli |-> h, harga_jual |-> hj] : h \in HargaSet, hj \in UpdateHargaJualSet}

\* setattr(jenis_sampah, field, value) for the fields of data that were set
SetFields(row, data) ==
    [field \in DOMAIN row |-> IF field \in DOMAIN data THEN data[field] ELSE row[field]]

\* mutant: the values of the deposits of the waste type follow the new price
UpdateJenisSampahRetroactive(jenis_sampah_id, data) ==
    /\ jenis_sampah_id \in DOMAIN jenis_sampah
    /\ jenis_sampah' = [jenis_sampah EXCEPT ![jenis_sampah_id] = SetFields(@, data)]
    /\ transaksi_setoran' =
           [i \in DOMAIN transaksi_setoran |->
                IF transaksi_setoran[i].jenis_sampah_id = jenis_sampah_id
                THEN [transaksi_setoran[i] EXCEPT
                          !.nilai = Nilai(transaksi_setoran[i].berat,
                                          jenis_sampah'[jenis_sampah_id].harga_beli)]
                ELSE transaksi_setoran[i]]
    /\ last' = Call("update_jenis_sampah", 0, jenis_sampah_id, 0, 0, 0, "record")
    /\ UNCHANGED <<nasabah, transaksi_tarik, pc, sess, sales, now>>
    /\ StampNewRows

\* JenisSampahService.update_jenis_sampah(jenis_sampah_id, data)
UpdateJenisSampah(jenis_sampah_id, data) ==
    IF jenis_sampah_id \notin DOMAIN jenis_sampah
    THEN /\ last' = Call("update_jenis_sampah", 0, jenis_sampah_id, 0, 0, 0, "None")
         /\ UNCHANGED <<nasabah, jenis_sampah, transaksi_setoran, transaksi_tarik, pc, sess, sales, now>>
         /\ StampNewRows
    ELSE /\ jenis_sampah' = [jenis_sampah EXCEPT ![jenis_sampah_id] = SetFields(@, data)]
         /\ last' = Call("update_jenis_sampah", 0, jenis_sampah_id, 0, 0, 0, "record")
         /\ UNCHANGED <<nasabah, transaksi_setoran, transaksi_tarik, pc, sess, sales, now>>
         /\ StampNewRows

\* deposits, withdrawal requests and sales on valid arguments, and price changes
NextPrice ==
    \/ NextSale
    \/ \E j \in JenisIdArgs, d \in PriceUpdates : UpdateJenisSampah(j, d)

SpecPrice == Init /\ [][NextPrice]_vars

\* ------------------------------------------------------- transaction report

\* the last value of the clock
MaxNow == 2

\* clock ticks in one calendar date
TicksPerDay == 2

\* cast(tanggal, Date)
Date(t) == t \div TicksPerDay

\* time passes between two calls
Tick ==
    /\ now < MaxNow
    /\ now' = now + 1
    /\ UNCHANGED <<nasabah, jenis_sampah, transaksi_setoran, transaksi_tarik, last, pc, sess, sales, tanggal>>

\* mutant: the end date is excluded
InRangeEndExcluded(t, start_date, end_date) == Date(t) >= start_date /\ Date(t) < end_date

\* cast(tanggal, Date) >= start_date, cast(tanggal, Date) <= end_date
InRange(t, start_date, end_date) == Date(t) >= start_date /\ Date(t) <= end_date

\* the fields of TransactionReport that tell entries apart and order them
TransactionReport(transaction_type, transaction_id, nilai, t) ==
    [transaction_type |-> transaction_type, transaction_id |-> transaction_id,
     nilai |-> nilai, tanggal |-> t]

\* x placed in a list sorted by tanggal descending, before the entries that
\* are not later than x
RECURSIVE InsertDescending(_, _)
InsertDescending(x, list) ==
    IF list = <<>> THEN <<x>>
    ELSE IF Head(list).tanggal > x.tanggal
         THEN <<Head(list)>> \o InsertDescending(x, Tail(list))
         ELSE <<x>> \o list

\* sorted(reports, key=lambda x: x.tanggal, reverse=True): stable, entries of
\* equal tanggal keep the order they have in reports
RECURSIVE SortedDescending(_)
SortedDescending(reports) ==
    IF reports = <<>> THEN <<>>
    ELSE InsertDescending(Head(reports), SortedDescending(Tail(reports)))

\* ReportService.generate_transaction_report(start_date, end_date)
generate_transaction_report(start_date, end_date) ==
    LET setoran_list ==
            Select(transaksi_setoran,
                   {i \in DOMAIN transaksi_setoran :
                        InRange(tanggal.setoran[i], start_date, end_date)}, 1)
        tarik_list ==
            Select(transaksi_tarik,
                   {i \in DOMAIN transaksi_tarik :
                        /\ InRange(tanggal.tarik[i], start_date, end_date)
                        /\ transaksi_tarik[i].status = "completed"}, 1)
        pengepul_list ==
            Select(transaksi_pengepul,
                   {i \in DOMAIN transaksi_pengepul :
                        InRange(tanggal.pengepul[i], start_date, end_date)}, 1)
        reports ==
            [k \in 1 .. Len(setoran_list) |->
                 TransactionReport("setoran", setoran_list[k],
                                   transaksi_setoran[setoran_list[k]].nilai,
                                   tanggal.setoran[setoran_list[k]])]
            \o [k \in 1 .. Len(tarik_list) |->
                    TransactionReport("tarik", tarik_list[k],
                                      transaksi_tarik[tarik_list[k]].jumlah,
                                      tanggal.tarik[tarik_list[k]])]
            \o [k \in 1 .. Len(pengepul_list) |->
                    TransactionReport("pengepul", pengepul_list[k],
                                      transaksi_pengepul[pengepul_list[k]].total,
                                      tanggal.pengepul[pengepul_list[k]])]
    IN  SortedDescending(reports)

ReportNasabahIdArgs == {1}
ReportHargaSet == {2}
ReportSaleBeratSet == {2}
ReportSaleHargaSet == {1}

\* the most records of the three transaction tables together
MaxReportRows == 4

ReportRows == Len(transaksi_setoran) + Len(transaksi_tarik) + Len(transaksi_pengepul)

\* deposits, withdrawals and sales on valid arguments while time passes
NextReport ==
    \/ Len(nasabah) + 1 \in NasabahIdArgs /\ CreateNasabah(Len(nasabah) + 1)
    \/ \E j \in JenisIdArgs, h \in ReportHargaSet, hj \in HargaJualSet : CreateJenisSampah(j, h, hj)
    \/ CreatePengepul
    \/ \E n \in ReportNasabahIdArgs, j \in JenisIdArgs, b \in BeratConc :
           ReportRows < MaxReportRows /\ CreateSetoran(n, j, b)
    \/ \E n \in ReportNasabahIdArgs, a \in JumlahConc :
           ReportRows < MaxReportRows /\ CreateTarik(n, a)
    \/ \E t \in TarikIdArgs : ApproveTarik(t)
    \/ \E t \in TarikIdArgs : RejectTarik(t)
    \/ \E p \in PengepulIdArgs, j \in JenisIdArgs, b \in ReportSaleBeratSet, h \in ReportSaleHargaSet :
           ReportRows < MaxReportRows /\ CreatePengepulTransaction(p, j, b, h)
    \/ Tick

SpecReport == Init /\ [][NextReport]_vars

\* ================================================================ claims
Conserved(c) ==
    nasabah[c].saldo = SumNilai(transaksi_setoran, c) - SumCompleted(transaksi_tarik, c)

\* C1: balance conservation. After any sequence of create_setoran,
\* create_tarik, approve_tarik and reject_tarik calls, every customer's saldo
\* equals the sum of nilai of the customer's deposit records minus the sum of
\* jumlah of the customer's completed withdrawal requests.
C1_BalanceConservation == \A c \in DOMAIN nasabah : Conserved(c)

\* C1 witness: a customer with a deposit, a completed withdrawal and a
\* withdrawal that is not completed.
C1_Witness ==
    \E c \in DOMAIN nasabah :
        /\ SumNilai(transaksi_setoran, c) > 0
        /\ SumCompleted(transaksi_tarik, c) > 0
        /\ \E i \in DOMAIN transaksi_tarik :
               /\ transaksi_tarik[i].nasabah_id = c
               /\ transaksi_tarik[i].status # "completed"
               /\ transaksi_tarik[i].jumlah > 0

\* C2: non-negative balance. After any sequence of deposit, withdrawal-create,
\* approve and reject calls with any arguments the service layer accepts,
\* every customer's saldo is >= 0.
C2_NonNegativeSaldo == \A c \in DOMAIN nasabah : nasabah[c].saldo >= 0

\* C3: no double-spend under concurrent approvals. With positive deposits and
\* amounts, the completed withdrawals of a customer never exceed what the
\* customer deposited (two approvals never both succeed on a balance that
\* covers only one of them), and the saldo is never negative.
C3_NoDoubleSpend ==
    \A c \in DOMAIN nasabah :
        /\ nasabah[c].saldo >= 0
        /\ SumCompleted(transaksi_tarik, c) <= SumNilai(transaksi_setoran, c)

\* C4: no lost update under concurrent credits and debits. Once every
\* concurrent call has committed or returned, balance conservation holds.
C4_NoLostUpdate ==
    (\A p \in Procs : pc[p] = "idle") => \A c \in DOMAIN nasabah : Conserved(c)

C6_ApproveDebitsOnce ==
    [][ (last'.op = "approve_tarik" /\ last'.transaksi_id \in DOMAIN transaksi_tarik) =>
          LET tid == last'.transaksi_id
              t == transaksi_tarik[tid]
              nid == t.nasabah_id
          IN  /\ (t.status = "pending" /\ nasabah[nid].saldo >= t.jumlah)
                    => /\ last'.ret = "True"
                       /\ transaksi_tarik'[tid].status = "completed"
                       /\ nasabah'[nid].saldo = nasabah[nid].saldo - t.jumlah
                       /\ \A c \in DOMAIN nasabah \ {nid} : nasabah'[c] = nasabah[c]
              /\ t.status = "completed"
                    => /\ last'.ret = "False"
                       /\ nasabah' = nasabah
                       /\ transaksi_tarik' = transaksi_tarik
      ]_vars

\* C6 witness: a second approve_tarik on a request completed with a positive
\* amount has just failed.
C6_Witness ==
    /\ last.op = "approve_tarik"
    /\ last.ret = "False"
    /\ last.transaksi_id \in DOMAIN transaksi_tarik
    /\ transaksi_tarik[last.transaksi_id].status = "completed"
    /\ transaksi_tarik[last.transaksi_id].jumlah > 0

\* C7: approval re-checks the balance. approve_tarik on a pending request
\* whose jumlah exceeds the customer's saldo at that moment returns False,
\* leaves the request pending and changes neither a saldo nor a request.
C7_ApproveRechecksSaldo ==
    [][ (last'.op = "approve_tarik" /\ last'.transaksi_id \in DOMAIN transaksi_tarik) =>
          LET t == transaksi_tarik[last'.transaksi_id]
          IN  (t.status = "pending" /\ nasabah[t.nasabah_id].saldo < t.jumlah)
                  => /\ last'.ret = "False"
                     /\ transaksi_tarik' = transaksi_tarik
                     /\ nasabah' = nasabah
      ]_vars

\* C7 witness: two requests of one customer were each created within the
\* balance, one was approved, and approve_tarik on the other has just failed
\* because the remaining saldo no longer covers it.
C7_Witness ==
    /\ last.op = "approve_tarik"
    /\ last.ret = "False"
    /\ last.transaksi_id \in DOMAIN transaksi_tarik
    /\ LET t == transaksi_tarik[last.transaksi_id]
       IN  /\ t.status = "pending"
           /\ nasabah[t.nasabah_id].saldo < t.jumlah
           /\ \E i \in DOMAIN transaksi_tarik :
                  /\ transaksi_tarik[i].nasabah_id = t.nasabah_id
                  /\ transaksi_tarik[i].status = "completed"
                  /\ transaksi_tarik[i].jumlah > 0

\* C8: reject never touches the balance. reject_tarik on a pending request
\* returns True, sets its status to rejected and leaves every saldo
\* unchanged; approve_tarik on a rejected request returns False and changes
\* neither a saldo nor a request.
C8_RejectKeepsSaldo ==
    [][ /\ (last'.op = "reject_tarik" /\ last'.transaksi_id \in DOMAIN transaksi_tarik
            /\ transaksi_tarik[last'.transaksi_id].status = "pending")
               => /\ last'.ret = "True"
                  /\ transaksi_tarik'[last'.transaksi_id].status = "rejected"
                  /\ nasabah' = nasabah
        /\ (last'.op = "approve_tarik" /\ last'.transaksi_id \in DOMAIN transaksi_tarik
            /\ transaksi_tarik[last'.transaksi_id].status = "rejected")
               => /\ last'.ret = "False"
                  /\ transaksi_tarik' = transaksi_tarik
                  /\ nasabah' = nasabah
      ]_vars

\* C8 witness: approve_tarik has just failed on a rejected request whose
\* amount the customer's saldo would cover.
C8_Witness ==
    /\ last.op = "approve_tarik"
    /\ last.ret = "False"
    /\ last.transaksi_id \in DOMAIN transaksi_tarik
    /\ LET t == transaksi_tarik[last.transaksi_id]
       IN  /\ t.status = "rejected"
           /\ t.jumlah > 0
           /\ nasabah[t.nasabah_id].saldo >= t.jumlah

\* C9: deposit effect. A successful create_setoran for customer c with weight
\* w and a waste type of buy price p appends exactly one deposit record, whose
\* nilai is w * p, raises c's saldo by exactly that nilai and changes no other
\* customer's saldo and no earlier record.
C9_DepositEffect ==
    [][ (last'.op = "create_setoran" /\ last'.ret = "record") =>
          LET c == last'.nasabah_id
              w == last'.berat
              p == jenis_sampah[last'.jenis_sampah_id].harga_beli
              n == Len(transaksi_setoran) + 1
          IN  /\ Len(transaksi_setoran') = n
              /\ last'.transaksi_id = n
              /\ SubSeq(transaksi_setoran', 1, n - 1) = transaksi_setoran
              /\ transaksi_setoran'[n] =
                     [nasabah_id |-> c, jenis_sampah_id |-> last'.jenis_sampah_id,
                      berat |-> w, nilai |-> w * p]
              /\ nasabah'[c].saldo = nasabah[c].saldo + transaksi_setoran'[n].nilai
              /\ \A d \in DOMAIN nasabah \ {c} : nasabah'[d] = nasabah[d]
              /\ DOMAIN nasabah' = DOMAIN nasabah
      ]_vars

\* C9 witness: a deposit of positive weight at a price above 1 has just
\* succeeded for one of two customers, as the second deposit record.
C9_Witness ==
    /\ last.op = "create_setoran"
    /\ last.ret = "record"
    /\ Len(nasabah) >= 2
    /\ Len(transaksi_setoran) = 2
    /\ transaksi_setoran[2].berat > 0
    /\ transaksi_setoran[2].nilai > transaksi_setoran[2].berat

\* C10: deposit on a missing reference performs no mutation. create_setoran
\* whose waste type id or customer id does not resolve returns no record,
\* appends no deposit record and changes no saldo.
C10_MissingReferenceNoMutation ==
    [][ (/\ last'.op = "create_setoran"
         /\ \/ last'.jenis_sampah_id \notin DOMAIN jenis_sampah
            \/ last'.nasabah_id \notin DOMAIN nasabah)
          => /\ last'.ret # "record"
             /\ transaksi_setoran' = transaksi_setoran
             /\ nasabah' = nasabah
             /\ transaksi_tarik' = transaksi_tarik
      ]_vars

\* C10 witness: create_setoran has just failed for an existing waste type
\* and a customer id that does not resolve, after the record was added to the
\* unit of work.
C10_Witness ==
    /\ last.op = "create_setoran"
    /\ last.ret # "record"
    /\ last.jenis_sampah_id \in DOMAIN jenis_sampah
    /\ last.nasabah_id \notin DOMAIN nasabah
    /\ last.berat > 0

\* C11: deposit weight validation. create_setoran with berat <= 0 returns no
\* record, appends no deposit record and changes no saldo; every stored
\* deposit record has berat > 0.
C11_DepositWeightValidation ==
    /\ [](\A i \in DOMAIN transaksi_setoran : transaksi_setoran[i].berat > 0)
    /\ [][ (last'.op = "create_setoran" /\ last'.berat <= 0)
             => /\ last'.ret # "record"
                /\ transaksi_setoran' = transaksi_setoran
                /\ nasabah' = nasabah
         ]_vars

\* C12: withdrawal amount validation. Every withdrawal request has
\* jumlah > 0; create_tarik with jumlah <= 0 creates no request.
C12_WithdrawalAmountPositive ==
    /\ [](\A i \in DOMAIN transaksi_tarik : transaksi_tarik[i].jumlah > 0)
    /\ [][ (last'.op = "create_tarik" /\ last'.jumlah <= 0)
             => /\ last'.ret # "record"
                /\ transaksi_tarik' = transaksi_tarik
         ]_vars

\* C13: withdrawal creation does not move money. A successful create_tarik
\* appends exactly one request, whose status is pending, and leaves the
\* customer's saldo, every other saldo, every existing request and every
\* deposit record unchanged.
C13_CreateTarikMovesNoMoney ==
    [][ (last'.op = "create_tarik" /\ last'.ret = "record") =>
          LET n == Len(transaksi_tarik) + 1
          IN  /\ Len(transaksi_tarik') = n
              /\ last'.transaksi_id = n
              /\ SubSeq(transaksi_tarik', 1, n - 1) = transaksi_tarik
              /\ transaksi_tarik'[n] =
                     [nasabah_id |-> last'.nasabah_id, jumlah |-> last'.jumlah,
                      status |-> "pending"]
              /\ nasabah' = nasabah
              /\ transaksi_setoran' = transaksi_setoran
      ]_vars

\* C13 witness: create_tarik has just succeeded with a positive amount for a
\* customer of positive saldo, as the second request, next to another
\* customer.
C13_Witness ==
    /\ last.op = "create_tarik"
    /\ last.ret = "record"
    /\ last.jumlah > 0
    /\ Len(transaksi_tarik) = 2
    /\ last.transaksi_id = 2
    /\ Len(nasabah) >= 2
    /\ nasabah[last.nasabah_id].saldo >= last.jumlah

\* C14: withdrawal creation over the balance is refused. create_tarik with
\* jumlah greater than the customer's saldo, or for a customer id that does
\* not resolve, returns None, creates no request and changes no saldo.
C14_CreateTarikRefused ==
    [][ (/\ last'.op = "create_tarik"
         /\ \/ last'.nasabah_id \notin DOMAIN nasabah
            \/ last'.jumlah > nasabah[last'.nasabah_id].saldo)
          => /\ last'.ret = "None"
             /\ transaksi_tarik' = transaksi_tarik
             /\ nasabah' = nasabah
             /\ transaksi_setoran' = transaksi_setoran
      ]_vars

\* C14 witness: create_tarik has just been refused for an existing customer
\* whose positive saldo is below the requested amount.
C14_Witness ==
    /\ last.op = "create_tarik"
    /\ last.ret = "None"
    /\ last.nasabah_id \in DOMAIN nasabah
    /\ nasabah[last.nasabah_id].saldo > 0
    /\ last.jumlah > nasabah[last.nasabah_id].saldo

\* the call c returned a failure value
Failed(c) == c.ret \in {"None", "False", "IntegrityError"}

\* the kind of failure that the call c meets in the current state
FailureKind(c) ==
    IF c.op \in {"approve_tarik", "reject_tarik"}
    THEN IF c.transaksi_id \notin DOMAIN transaksi_tarik THEN "NotFound"
         ELSE LET t == transaksi_tarik[c.transaksi_id]
              IN  IF t.status # "pending" THEN "InvalidState"
                  ELSE IF t.nasabah_id \notin DOMAIN nasabah THEN "NotFound"
                  ELSE IF c.op = "approve_tarik" /\ nasabah[t.nasabah_id].saldo < t.jumlah
                       THEN "InsufficientFunds"
                       ELSE "none"
    ELSE IF c.op = "create_tarik"
    THEN IF c.nasabah_id \notin DOMAIN nasabah THEN "NotFound"
         ELSE IF nasabah[c.nasabah_id].saldo < c.jumlah THEN "InsufficientFunds"
         ELSE "none"
    ELSE IF c.op = "create_setoran"
    THEN IF c.jenis_sampah_id \notin DOMAIN jenis_sampah
            \/ c.nasabah_id \notin DOMAIN nasabah
         THEN "NotFound"
         ELSE "none"
    ELSE "none"

\* C16: error kinds are distinguishable. For approve_tarik, reject_tarik,
\* create_tarik and create_setoran the value returned on failure determines
\* the kind of failure: two failing calls of one operation that fail for
\* different kinds (not found, not pending, insufficient funds) never return
\* the same value. A failing call changes nothing, so two consecutive failing
\* calls meet the same state and their kinds are both read in it.
C16_ErrorKindsDistinguishable ==
    [][ (/\ last.op = last'.op
         /\ Failed(last)
         /\ Failed(last')
         /\ FailureKind(last) # FailureKind(last'))
          => last.ret # last'.ret
      ]_vars

\* amount rounded half-up to 2 fractional digits (a multiple of 1000 units of
\* 10^-5), ties away from zero
RoundHalfUp(amount) ==
    IF amount >= 0 THEN ((amount + 500) \div 1000) * 1000
    ELSE 0 - (((0 - amount) + 500) \div 1000) * 1000

\* C17: deposit value rounding. The nilai stored by a successful
\* create_setoran of positive weight is berat * harga_beli rounded half-up to 2 fractional
\* digits, and the saldo is raised by that same rounded value.
C17_DepositValueRounded ==
    [][ (last'.op = "create_setoran" /\ last'.ret = "record" /\ last'.berat > 0) =>
          LET c == last'.nasabah_id
              n == last'.transaksi_id
              rounded == RoundHalfUp(last'.berat
                                     * jenis_sampah[last'.jenis_sampah_id].harga_beli)
          IN  /\ transaksi_setoran'[n].nilai = rounded
              /\ nasabah'[c].saldo = nasabah[c].saldo + rounded
      ]_vars

\* C15: deposit atomicity. Every create_setoran call, whether it returns a
\* record, returns None or is cut short by a Record Store failure, either
\* changes neither the deposit records nor a saldo, or appends exactly one
\* deposit record and raises exactly its customer's saldo by its nilai.
C15_DepositAtomic ==
    [][ last'.op = "create_setoran" =>
          \/ /\ transaksi_setoran' = transaksi_setoran
             /\ nasabah' = nasabah
          \/ LET n == Len(transaksi_setoran) + 1
             IN  /\ Len(transaksi_setoran') = n
                 /\ SubSeq(transaksi_setoran', 1, n - 1) = transaksi_setoran
                 /\ transaksi_setoran'[n].nasabah_id \in DOMAIN nasabah
                 /\ nasabah' = [nasabah EXCEPT ![transaksi_setoran'[n].nasabah_id].saldo =
                                    @ + transaksi_setoran'[n].nilai]
      ]_vars

\* C15 witness: the Record Store has just failed during a deposit of positive
\* weight for an existing customer, after the record was added and before
\* the commit returned.
C15_Witness ==
    /\ last.op = "create_setoran"
    /\ last.ret = "OperationalError"
    /\ last.transaksi_id = 0
    /\ last.berat > 0
    /\ last.nasabah_id \in DOMAIN nasabah
    /\ last.jenis_sampah_id \in DOMAIN jenis_sampah
    /\ Len(transaksi_setoran) > 0

\* C18: a collector sale has no ledger side effect. A successful
\* create_pengepul_transaction appends exactly one sale record, whose total is
\* the weight times the sale price passed in, and leaves every saldo, every
\* deposit record, every withdrawal request and every earlier sale record
\* unchanged.
C18_SaleNoLedgerEffect ==
    [][ (last'.op = "create_pengepul_transaction" /\ last'.ret = "record") =>
          LET n == Len(transaksi_pengepul) + 1
          IN  /\ Len(transaksi_pengepul') = n
              /\ last'.transaksi_id = n
              /\ SubSeq(transaksi_pengepul', 1, n - 1) = transaksi_pengepul
              /\ transaksi_pengepul'[n] =
                     [pengepul_id |-> last'.pengepul_id,
                      jenis_sampah_id |-> last'.jenis_sampah_id,
                      berat |-> last'.berat, harga_jual |-> last'.harga_jual,
                      total |-> last'.berat * last'.harga_jual]
              /\ nasabah' = nasabah
              /\ transaksi_setoran' = transaksi_setoran
              /\ transaksi_tarik' = transaksi_tarik
      ]_vars

\* C18 witness: a sale of positive weight has just succeeded at a positive
\* price that is not the waste type's default, as the second sale record,
\* while a customer holds a balance, a deposit record and a pending request.
C18_Witness ==
    /\ last.op = "create_pengepul_transaction"
    /\ last.ret = "record"
    /\ last.berat > 0
    /\ last.harga_jual > 0
    /\ last.harga_jual # jenis_sampah[last.jenis_sampah_id].harga_jual
    /\ Len(transaksi_pengepul) = 2
    /\ Len(transaksi_setoran) > 0
    /\ \E i \in DOMAIN transaksi_tarik : transaksi_tarik[i].status = "pending"
    /\ \E c \in DOMAIN nasabah : nasabah[c].saldo > 0

\* C19: collector sale validation. create_pengepul_transaction with
\* berat <= 0 or harga_jual <= 0, or with a collector id or waste type id
\* that does not resolve, appends no sale record; every stored sale record
\* has berat > 0 and harga_jual > 0.
C19_SaleValidation ==
    /\ [](\A i \in DOMAIN transaksi_pengepul :
              /\ transaksi_pengepul[i].berat > 0
              /\ transaksi_pengepul[i].harga_jual > 0)
    /\ [][ (/\ last'.op = "create_pengepul_transaction"
            /\ \/ last'.berat <= 0
               \/ last'.harga_jual <= 0
               \/ last'.pengepul_id \notin DOMAIN pengepul
               \/ last'.jenis_sampah_id \notin DOMAIN jenis_sampah)
             => /\ last'.ret # "record"
                /\ transaksi_pengepul' = transaksi_pengepul
         ]_vars

\* sum of berat over the records of waste type id in table
RECURSIVE SumBerat(_, _)
SumBerat(table, id) ==
    IF table = <<>> THEN 0
    ELSE (IF Head(table).jenis_sampah_id = id THEN Head(table).berat ELSE 0)
         + SumBerat(Tail(table), id)

Deposited(id) == SumBerat(transaksi_setoran, id)

Sold(id) == SumBerat(transaksi_pengepul, id)

\* the waste types that appear in a deposit record or in a sale record
WasteTypes ==
    {transaksi_setoran[i].jenis_sampah_id : i \in DOMAIN transaksi_setoran}
        \cup {transaksi_pengepul[i].jenis_sampah_id : i \in DOMAIN transaksi_pengepul}

\* sum over the waste types in ids of max(deposited - sold, 0)
RECURSIVE SumNetStock(_)
SumNetStock(ids) ==
    IF ids = {} THEN 0
    ELSE LET id == CHOOSE id \in ids : TRUE
             net == Deposited(id) - Sold(id)
         IN  (IF net > 0 THEN net ELSE 0) + SumNetStock(ids \ {id})

\* C20: stock formula. After every history of deposits and collector sales,
\* get_total_waste_stock is the sum over the waste types of
\* max(deposited - sold, 0), a type that appears only in sales counting as
\* deposited 0; when a single type was deposited D and sold S <= D the result
\* is D - S.
C20_StockFormula ==
    /\ get_total_waste_stock = SumNetStock(WasteTypes)
    /\ \A id \in WasteTypes :
           (WasteTypes = {id} /\ Sold(id) <= Deposited(id))
               => get_total_waste_stock = Deposited(id) - Sold(id)

\* C20 witness: one waste type is oversold (sold more than the positive
\* weight deposited), another was deposited and not sold, and the stock is
\* the second type's deposited weight.
C20_Witness ==
    \E a \in WasteTypes, b \in WasteTypes :
        /\ a # b
        /\ Deposited(a) > 0
        /\ Sold(a) > Deposited(a)
        /\ Deposited(b) > 0
        /\ Sold(b) = 0
        /\ get_total_waste_stock = Deposited(b)

\* C21: the stock is never negative. After any sequence of deposits and
\* collector sales, sales beyond the deposited weight included, the total of
\* get_total_waste_stock and the total_waste_stock of the dashboard summary
\* are >= 0, and they are 0 when there is no record.
C21_StockNonNegative ==
    /\ get_total_waste_stock >= 0
    /\ get_dashboard_summary.total_waste_stock >= 0
    /\ (transaksi_setoran = <<>> /\ transaksi_pengepul = <<>>)
           => /\ get_total_waste_stock = 0
              /\ get_dashboard_summary.total_waste_stock = 0

\* C21 witness: every waste type on record is sold beyond its deposited
\* weight, one of them after a deposit, and the dashboard shows a stock of 0.
C21_Witness ==
    /\ \E a \in WasteTypes : Deposited(a) > 0
    /\ \A a \in WasteTypes : Sold(a) > Deposited(a)
    /\ get_dashboard_summary.total_waste_stock = 0

\* the sum of field total over the sale records, of nilai over the deposit
\* records
SumOfTotal == LET RECURSIVE S(_)
                  S(n) == IF n = 0 THEN 0 ELSE transaksi_pengepul[n].total + S(n - 1)
              IN  S(Len(transaksi_pengepul))

SumOfNilai == LET RECURSIVE S(_)
                  S(n) == IF n = 0 THEN 0 ELSE transaksi_setoran[n].nilai + S(n - 1)
              IN  S(Len(transaksi_setoran))

\* C22: profit formula. calculate_total_profit is the sum of total over the
\* sale records minus the sum of nilai over the deposit records; it is 0 on
\* an empty ledger, and a step that changes neither a sale record nor a
\* deposit record (a withdrawal request, a customer) leaves it unchanged.
C22_ProfitFormula ==
    /\ [](calculate_total_profit = SumOfTotal - SumOfNilai)
    /\ []((transaksi_setoran = <<>> /\ transaksi_pengepul = <<>>)
              => calculate_total_profit = 0)
    /\ [][ (transaksi_setoran' = transaksi_setoran
            /\ transaksi_pengepul' = transaksi_pengepul)
             => calculate_total_profit' = calculate_total_profit
         ]_vars

\* C22 witness: the profit is negative although a sale of positive total is
\* on record, next to a withdrawal request.
C22_Witness ==
    /\ calculate_total_profit < 0
    /\ \E i \in DOMAIN transaksi_pengepul : transaksi_pengepul[i].total > 0
    /\ transaksi_tarik # <<>>

\* the deposit records of customer c, the requests of customer c in status st
SetoranOf(c) == {i \in DOMAIN transaksi_setoran : transaksi_setoran[i].nasabah_id = c}

TarikOf(c, st) ==
    {i \in DOMAIN transaksi_tarik :
         transaksi_tarik[i].nasabah_id = c /\ transaksi_tarik[i].status = st}

\* sum of amount[i] over the ids i in ids
RECURSIVE SumIds(_, _)
SumIds(amount, ids) ==
    IF ids = {} THEN 0
    ELSE LET i == CHOOSE j \in ids : TRUE
         IN  amount[i] + SumIds(amount, ids \ {i})

\* the customer ids asked for: the two that can exist and one that never does
ReportIdArgs == NasabahIdArgs \cup {3}

\* C25: customer summary. For an existing customer generate_customer_report
\* returns total_setoran = the sum of the customer's deposit values,
\* total_tarik = the sum of the customer's completed withdrawal amounts and
\* saldo_current = the stored saldo, and saldo_current = total_setoran -
\* total_tarik; for an id that does not exist it raises the not-found error.
C25_CustomerSummary ==
    \A id \in ReportIdArgs :
        LET r == generate_customer_report(id)
        IN  IF id \in DOMAIN nasabah
            THEN /\ r.raises = "None"
                 /\ r.total_setoran =
                        SumIds([i \in DOMAIN transaksi_setoran |-> transaksi_setoran[i].nilai], SetoranOf(id))
                 /\ r.total_tarik =
                        SumIds([i \in DOMAIN transaksi_tarik |-> transaksi_tarik[i].jumlah], TarikOf(id, "completed"))
                 /\ r.saldo_current = nasabah[id].saldo
                 /\ r.saldo_current = r.total_setoran - r.total_tarik
            ELSE r.raises = "ValueError"

\* C25 witness: a customer has deposits, a completed withdrawal and a
\* rejected request of positive amounts, while another id asked for does not
\* exist.
C25_Witness ==
    /\ \E id \in DOMAIN nasabah :
           /\ generate_customer_report(id).total_setoran > 0
           /\ generate_customer_report(id).total_tarik > 0
           /\ \E i \in TarikOf(id, "rejected") : transaksi_tarik[i].jumlah > 0
    /\ \E id \in NasabahIdArgs : generate_customer_report(id).raises = "ValueError"

\* C29: dashboard balance total. total_customer_balance of the dashboard
\* summary is the sum of the customers' saldo, which is the sum of all deposit
\* values minus the sum of all completed withdrawal amounts, and
\* pending_withdrawal_requests is the number of requests in status pending.
C29_DashboardTotals ==
    LET d == get_dashboard_summary
    IN  /\ d.total_customer_balance = SumIds([c \in DOMAIN nasabah |-> nasabah[c].saldo], DOMAIN nasabah)
        /\ d.total_customer_balance =
               SumIds([i \in DOMAIN transaksi_setoran |-> transaksi_setoran[i].nilai], DOMAIN transaksi_setoran)
               - SumIds([i \in DOMAIN transaksi_tarik |-> transaksi_tarik[i].jumlah],
                        {i \in DOMAIN transaksi_tarik : transaksi_tarik[i].status = "completed"})
        /\ d.pending_withdrawal_requests =
               Cardinality({i \in DOMAIN transaksi_tarik :
                                transaksi_tarik[i].status = "pending"})

\* C29 witness: of two customers one holds a positive saldo, one request is
\* pending and another one is completed.
C29_Witness ==
    /\ Len(nasabah) = 2
    /\ get_dashboard_summary.total_customer_balance > 0
    /\ get_dashboard_summary.pending_withdrawal_requests = 1
    /\ \E i \in DOMAIN transaksi_tarik :
           transaksi_tarik[i].status = "completed" /\ transaksi_tarik[i].jumlah > 0

\* C27: exclusive balance mutation. A step that changes a customer's saldo is
\* a create_setoran that stores a deposit record of the customer with that
\* value, or an approve_tarik that completes a request of the customer of that
\* amount. It does not hold: update_saldo changes the saldo with no record.
C27_ExclusiveBalanceMutation ==
    [][ \A c \in DOMAIN nasabah :
            nasabah'[c].saldo # nasabah[c].saldo
                => \/ /\ last'.op = "create_setoran"
                      /\ Len(transaksi_setoran') = Len(transaksi_setoran) + 1
                      /\ transaksi_setoran'[Len(transaksi_setoran')].nasabah_id = c
                      /\ nasabah'[c].saldo - nasabah[c].saldo
                             = transaksi_setoran'[Len(transaksi_setoran')].nilai
                   \/ /\ last'.op = "approve_tarik"
                      /\ transaksi_tarik[last'.transaksi_id].status = "pending"
                      /\ transaksi_tarik'[last'.transaksi_id].status = "completed"
                      /\ transaksi_tarik'[last'.transaksi_id].nasabah_id = c
                      /\ nasabah[c].saldo - nasabah'[c].saldo
                             = transaksi_tarik'[last'.transaksi_id].jumlah ]_vars

\* C28: price changes are not retroactive. A deposit's nilai comes from the
\* buy price in force when create_setoran runs, and update_jenis_sampah leaves
\* every deposit record, every sale record, every saldo and the total profit
\* as they were.
C28_PriceChangeNotRetroactive ==
    [][ /\ (last'.op = "create_setoran" /\ last'.ret = "record")
            => transaksi_setoran'[Len(transaksi_setoran')].nilai
                   = Nilai(last'.berat, jenis_sampah[last'.jenis_sampah_id].harga_beli)
        /\ last'.op = "update_jenis_sampah"
            => /\ transaksi_setoran' = transaksi_setoran
               /\ transaksi_pengepul' = transaksi_pengepul
               /\ nasabah' = nasabah
               /\ calculate_total_profit' = calculate_total_profit ]_vars

\* C28 witness: after a price change, a deposit record and a sale record keep
\* values that differ from what the present prices would give.
C28_Witness ==
    /\ last.op = "update_jenis_sampah"
    /\ last.ret = "record"
    /\ \E i \in DOMAIN transaksi_setoran :
           transaksi_setoran[i].nilai
               # Nilai(transaksi_setoran[i].berat,
                       jenis_sampah[transaksi_setoran[i].jenis_sampah_id].harga_beli)
    /\ \E i \in DOMAIN transaksi_pengepul :
           /\ transaksi_pengepul[i].total > 0
           /\ transaksi_pengepul[i].harga_jual
                  # jenis_sampah[transaksi_pengepul[i].jenis_sampah_id].harga_jual
    /\ \E c \in DOMAIN nasabah : nasabah[c].saldo > 0

\* the calendar dates the clock passes through
Days == 0 .. (MaxNow \div TicksPerDay)

\* how many entries of report are about record id of the kind type
Entries(report, type, id) ==
    Cardinality({k \in DOMAIN report :
                     report[k].transaction_type = type /\ report[k].transaction_id = id})

\* date d lies in [start, end]
Within(d, start, end) == start <= d /\ d <= end

\* C23: report membership. generate_transaction_report(start, end) has one
\* entry for every deposit record and every sale record whose date lies in
\* [start, end], one entry for every completed withdrawal request of that
\* range, and no other entry.
C23_ReportMembership ==
    \A start \in Days, end \in Days :
        LET report == generate_transaction_report(start, end)
        IN  /\ \A i \in DOMAIN transaksi_setoran :
                   Entries(report, "setoran", i)
                       = IF Within(tanggal.setoran[i] \div TicksPerDay, start, end) THEN 1 ELSE 0
            /\ \A i \in DOMAIN transaksi_pengepul :
                   Entries(report, "pengepul", i)
                       = IF Within(tanggal.pengepul[i] \div TicksPerDay, start, end) THEN 1 ELSE 0
            /\ \A i \in DOMAIN transaksi_tarik :
                   Entries(report, "tarik", i)
                       = IF /\ Within(tanggal.tarik[i] \div TicksPerDay, start, end)
                            /\ transaksi_tarik[i].status = "completed"
                         THEN 1 ELSE 0
            /\ \A k \in DOMAIN report :
                   \/ /\ report[k].transaction_type = "setoran"
                      /\ report[k].transaction_id \in DOMAIN transaksi_setoran
                   \/ /\ report[k].transaction_type = "pengepul"
                      /\ report[k].transaction_id \in DOMAIN transaksi_pengepul
                   \/ /\ report[k].transaction_type = "tarik"
                      /\ report[k].transaction_id \in DOMAIN transaksi_tarik

\* C23 witness: the report of day 0 has the deposit of that day and leaves
\* out a pending and a rejected request of that day and a sale of day 1.
C23_Witness ==
    /\ \E i \in DOMAIN transaksi_setoran :
           Entries(generate_transaction_report(0, 0), "setoran", i) = 1
    /\ \E i \in DOMAIN transaksi_tarik :
           transaksi_tarik[i].status = "pending" /\ tanggal.tarik[i] \div TicksPerDay = 0
    /\ \E i \in DOMAIN transaksi_tarik :
           transaksi_tarik[i].status = "rejected" /\ tanggal.tarik[i] \div TicksPerDay = 0
    /\ \E i \in DOMAIN transaksi_pengepul : tanggal.pengepul[i] \div TicksPerDay = 1
    /\ Len(generate_transaction_report(0, 0)) = 1
    /\ Len(generate_transaction_report(0, 1)) = 2

\* entry x is about a record that the step inserts
Inserted(x) ==
    \/ x.transaction_type = "setoran" /\ x.transaction_id \notin DOMAIN transaksi_setoran
    \/ x.transaction_type = "tarik" /\ x.transaction_id \notin DOMAIN transaksi_tarik
    \/ x.transaction_type = "pengepul" /\ x.transaction_id \notin DOMAIN transaksi_pengepul

\* C24: report order. The entries are sorted by tanggal descending and the
\* entry of a record just inserted comes after every entry of equal tanggal,
\* of whatever kind. It does not hold: among equal timestamps the deposits
\* come first, then the withdrawals, then the sales.
C24_ReportOrder ==
    [][ \A start \in Days, end \in Days :
            LET report == generate_transaction_report(start, end)'
            IN  /\ \A k \in 1 .. Len(report) - 1 : report[k].tanggal >= report[k + 1].tanggal
                /\ \A k \in DOMAIN report, l \in DOMAIN report :
                       (Inserted(report[k]) /\ l # k /\ report[l].tanggal = report[k].tanggal)
                           => l < k ]_vars

\* C30: a withdrawal is reported under its request date. A successful
\* approve_tarik of a pending request leaves the request's tanggal as it was
\* and the report of the request's date d1 has no entry for the request before
\* the approval; a completed request has one entry in the report of its
\* request date and none in the report of any other date.
C30_WithdrawalReportedUnderRequestDate ==
    /\ [][ \A tid \in DOMAIN transaksi_tarik, d1 \in Days :
               ( /\ last'.op = "approve_tarik"
                 /\ last'.ret = "True"
                 /\ last'.transaksi_id = tid
                 /\ transaksi_tarik[tid].status = "pending"
                 /\ tanggal.tarik[tid] \div TicksPerDay = d1 )
                   => /\ tanggal'.tarik[tid] = tanggal.tarik[tid]
                      /\ transaksi_tarik'[tid].status = "completed"
                      /\ Entries(generate_transaction_report(d1, d1), "tarik", tid) = 0 ]_vars
    /\ [](\A tid \in DOMAIN transaksi_tarik, d \in Days :
              transaksi_tarik[tid].status = "completed"
                  => Entries(generate_transaction_report(d, d), "tarik", tid)
                         = IF d = tanggal.tarik[tid] \div TicksPerDay THEN 1 ELSE 0)

\* C30 witness: a request made on day 0 has just been approved on day 1: the
\* report of day 0 has its entry and the report of day 1 is empty.
C30_Witness ==
    /\ last.op = "approve_tarik"
    /\ last.ret = "True"
    /\ now \div TicksPerDay = 1
    /\ tanggal.tarik[last.transaksi_id] \div TicksPerDay = 0
    /\ Entries(generate_transaction_report(0, 0), "tarik", last.transaksi_id) = 1
    /\ generate_transaction_report(1, 1) = <<>>

\* the customers listed by the call of p
Listed(p) == {sess[p].nasabah_list[k] : k \in DOMAIN sess[p].nasabah_list}

\* C26: all-customer summaries tolerate concurrent deletion. A loop turn for
\* a customer deleted since the listing adds no summary and the call goes on
\* with the next customer; the list returned is sorted ascending by
\* nasabah_kode, has at most one summary per listed customer and exactly one
\* for every listed customer that still exists at the return.
C26_AllReportsTolerateDeletion ==
    [][ \A p \in ReportProcs :
            /\ (pc[p] = "all_reports" /\ sess[p].next <= Len(sess[p].nasabah_list)
                    /\ sess' # sess
                    /\ sess[p].nasabah_list[sess[p].next] \notin NasabahIds)
                   => /\ pc'[p] = "all_reports"
                      /\ sess'[p].reports = sess[p].reports
                      /\ sess'[p].next = sess[p].next + 1
            /\ (pc[p] = "all_reports" /\ pc'[p] = "idle")
                   => /\ last'.op = "get_all_customer_reports"
                      /\ last'.ret = "list"
                      /\ \A k \in 1 .. Len(last'.reports) - 1 :
                             last'.reports[k].nasabah_kode <= last'.reports[k + 1].nasabah_kode
                      /\ Len(last'.reports) <= Len(sess[p].nasabah_list)
                      /\ \A id \in Listed(p) \cap NasabahIds :
                             Cardinality({k \in DOMAIN last'.reports :
                                              last'.reports[k].nasabah_kode = nasabah[id].kode}) = 1 ]_vars

\* C26 witness: a call has returned two summaries in the order of their
\* codes, which is not the order of the customers' ids, after it skipped a
\* customer deleted since the listing.
C26_Witness ==
    /\ last.op = "get_all_customer_reports"
    /\ Len(last.reports) = 2
    /\ Len(last.warnings) = 1
    /\ \E a \in NasabahIds, b \in NasabahIds :
           /\ a < b
           /\ nasabah[a].kode = last.reports[2].nasabah_kode
           /\ nasabah[b].kode = last.reports[1].nasabah_kode
           /\ nasabah[last.warnings[1]] = Deleted

====
